---- MODULE Spec2Model ----
(***************************************************************************)
(* Lifecycle of one managed resource of the google provider: a compute     *)
(* address (resource_compute_address.go) or a compute route                *)
(* (resource_compute_route.go).  One lifecycle call (Create, Read, Delete) *)
(* runs at a time; each remote interaction of a handler is one step, and   *)
(* the remote side (the API server and other actors) moves between steps.  *)
(***************************************************************************)
EXTENDS Integers, Sequences, FiniteSets, TLC

\* ------------------------------------------------------------------ bounds
\* number of lifecycle calls made on the resource in one run
MaxCalls == 3

\* longest import id, in "/"-separated segments
MaxSegments == 6

\* ------------------------------------------------------------------ values
\* a reference value that matches none of the accepted shapes
Malformed == "a//b"

Kinds == {"address", "route"}

\* answers of the transport to a request
RespOK        == "ok"
RespNotFound  == "NotFound"
RespTransport == "Transport"

\* terminal outcomes of the wait on an operation
Outcomes == {"Succeeded", "Failed", "TimedOut"}

\* the nil interface value: a wire field the response does not carry
Nil == "<nil>"

\* a wire object maps the names of the fields it carries to their values
NoObject == [k \in {} |-> ""]

\* obj[k], nil when the object does not carry k
Field(obj, k) == IF k \in DOMAIN obj THEN obj[k] ELSE Nil

VARIABLES
    kind,       \* which resource kind this resource is
    cfg,        \* *Config: ambient defaults (project, region)
    d,          \* *schema.ResourceData: the declared fields; d.zeroed names
                \* the fields that are set, but to the empty value
    id,         \* d.Id()
    remote,     \* TRUE iff the remote object exists
    pc,         \* position of the running handler; "idle" / "ret" between calls
    call,       \* the lifecycle call that runs or ran last
    ret,        \* result of the last call: "none", "ok", "err"
    failedAt,   \* step at which the last call gave up
    idBefore,   \* id when the call started
    assigned,   \* d.SetId(non-empty) was executed in this call
    sent,       \* mutating requests (insert / delete) sent in this call
    submitResp, \* answer to the mutating request of this call
    polled,     \* the wait on the operation was started in this call
    outcome,    \* how the wait ended
    fetched,    \* GET requests sent by Read in this call
    fetchResp,  \* answer to the GET of this call
    ncalls,     \* lifecycle calls started so far
    payload,    \* body of the create request sent in this call
    robj,       \* the remote object's representation, NoObject when absent
    res,        \* the representation Read fetched in this call
    timeouts,   \* d.Timeout: configured create / delete timeouts, in seconds
    deadline,   \* minutes handed to the wait on the operation in this call
    importId,   \* the id handed to Import, as its "/"-separated segments
    matched,    \* index of the import pattern that matched, 0 for none
    codec       \* a field value on its way through expand and flatten

vars == <<kind, cfg, d, id, remote, pc, call, ret, failedAt, idBefore,
          assigned, sent, submitResp, polled, outcome, fetched, fetchResp,
          ncalls, payload, robj, res, timeouts, deadline, importId, matched,
          codec>>

\* the parts of the state no handler step changes
static == <<kind, cfg, d, call, idBefore, ncalls, timeouts, importId, matched,
            codec>>

\* ----------------------------------------------------------- collaborators
\* getProject: the declared project, else the provider's default project;
\* "" stands for the error "project: required field is not set"
getProject(dd, c) == IF dd.project # "" THEN dd.project ELSE c.project

\* getRegion: the declared region, else the provider's default region
getRegion(dd, c) == IF dd.region # "" THEN dd.region ELSE c.region

\* replaceVars succeeds iff every {{field}} of the template resolves
replaceVarsOK(dd, c) == getProject(dd, c) # "" /\ getRegion(dd, c) # ""

\* replaceVars(d, config, "{{project}}/{{region}}/{{name}}")
AddressId(dd, c) == getProject(dd, c) \o "/" \o getRegion(dd, c) \o "/" \o dd.name

\* the two API roots a self-link can start with
V1Base   == "https://www.googleapis.com/compute/v1/"
BetaBase == "https://www.googleapis.com/compute/beta/"

\* the relative links of the objects that exist in the model, each with the
\* name it ends in
LinkTable ==
    LET regions == {[p |-> p, r |-> r] : p \in {"p1", "p2"}, r \in {"r1", "r2"}}
        at(x)   == "projects/" \o x.p \o "/regions/" \o x.r
    IN  {[rel |-> at(x), name |-> x.r] : x \in regions}
        \cup {[rel |-> at(x) \o "/subnetworks/sub1", name |-> "sub1"] : x \in regions}
        \cup {[rel |-> at(x) \o "/addresses/a1", name |-> "a1"] : x \in regions}

\* the entries of LinkTable v refers to, as a self-link of either root or as
\* a relative link
LinksOf(v) ==
    {e \in LinkTable : v \in {V1Base \o e.rel, BetaBase \o e.rel, e.rel}}

\* ConvertSelfLinkToV1: a beta self-link becomes the v1 self-link
ConvertSelfLinkToV1(v) ==
    IF \E e \in LinkTable : v = BetaBase \o e.rel
    THEN V1Base \o (CHOOSE e \in LinkTable : v = BetaBase \o e.rel).rel
    ELSE v

\* NameFromSelfLinkStateFunc: the last path segment of a link, a bare name as
\* it is
NameFromSelfLinkStateFunc(v) ==
    IF LinksOf(v) # {} THEN (CHOOSE e \in LinksOf(v) : TRUE).name ELSE v

\* parseRegionalFieldValue / parseGlobalFieldValue with isEmptyValid = true:
\* the empty value is accepted, a value of no accepted shape is rejected, a
\* bare name needs the project from the context
parseFieldValueOK(v, dd, c) ==
    \/ v = ""
    \/ v # Malformed /\ getProject(dd, c) # ""

\* handleNotFoundError: a 404 drops the identity and is no error; every
\* other error is returned
handleNotFoundError(resp) ==
    IF resp = RespNotFound THEN [ret |-> "ok",  clear |-> TRUE]
                           ELSE [ret |-> "err", clear |-> FALSE]

\* computeOperationWaitTime: nil iff the operation reached DONE without an
\* error before the deadline
computeOperationWaitTime(o) == IF o = "Succeeded" THEN "nil" ELSE "err"

\* answers the server can give to a request addressed to the object
AnswersByIdentity == IF remote THEN {RespOK, RespTransport}
                               ELSE {RespNotFound, RespTransport}

\* what a create operation that ended with outcome o did to the remote object
CreateEffect(o) ==
    IF o = "Succeeded" THEN {TRUE}
    ELSE IF o = "Failed" THEN {remote}
    ELSE {remote, TRUE}

\* what a delete operation that ended with outcome o did to the remote object
DeleteEffect(o) ==
    IF o = "Succeeded" THEN {FALSE}
    ELSE IF o = "Failed" THEN {remote}
    ELSE {remote, FALSE}

\* obj with field k set to v
With(obj, k, v) ==
    [x \in DOMAIN obj \cup {k} |-> IF x = k THEN v ELSE obj[x]]

\* the address the server creates from a create request: the fields of the
\* request, the server-assigned ones, and self-links under the root `base`
ServerAddress(req, project, region, base) ==
    LET here == "projects/" \o project \o "/regions/" \o region
        fixed == [name              |-> Field(req, "name"),
                  address           |-> IF "address" \in DOMAIN req
                                        THEN req.address ELSE "10.0.0.9",
                  networkTier       |-> IF "networkTier" \in DOMAIN req
                                        THEN req.networkTier ELSE "PREMIUM",
                  creationTimestamp |-> "2018-01-01T00:00:00Z",
                  region            |-> base \o here,
                  selfLink          |-> base \o here \o "/addresses/"
                                             \o Field(req, "name")]
        opt == {"addressType", "description", "subnetwork"} \cap DOMAIN req
    IN  [k \in DOMAIN fixed \cup opt |->
            IF k \in DOMAIN fixed THEN fixed[k]
            ELSE IF k = "subnetwork" THEN base \o req.subnetwork
            ELSE req[k]]

\* the remote object after a create operation: rem is whether it exists
\* afterwards, new the object the operation creates
AfterCreate(o, rem, new) ==
    IF ~rem THEN NoObject
    ELSE IF o = "Succeeded" \/ ~remote THEN new
    ELSE robj

\* the remote object after a delete operation
AfterDelete(rem) == IF rem THEN robj ELSE NoObject

\* ------------------------------------------------------------------- Init
AddressFields ==
    [name : {"a1"}, project : {"", "p2"}, region : {"", "r2", Malformed},
     subnetwork : {"", "sub1", Malformed},
     next_hop_instance : {""}, next_hop_network : {""},
     address : {""}, address_type : {"EXTERNAL"}, description : {""},
     network_tier : {""}, creation_timestamp : {""}, users : {""},
     self_link : {""}, dest_range : {""}, zeroed : {{}}]

RouteFields ==
    [name : {"rt1"}, project : {""}, region : {""}, subnetwork : {""},
     next_hop_instance : {"", "i1"}, next_hop_network : {"", "n1"},
     address : {""}, address_type : {""}, description : {""},
     network_tier : {""}, creation_timestamp : {""}, users : {""},
     self_link : {""}, dest_range : {"10.0.0.0/24"}, zeroed : {{}}]

\* Timeouts of resourceComputeAddress: schema.DefaultTimeout(240 * time.Second)
DefaultTimeouts == [create |-> 240, delete |-> 240]

\* no lifecycle call has run yet, nothing exists remotely
InitCommon ==
    /\ id = ""
    /\ remote = FALSE
    /\ pc = "idle"
    /\ call = "none"
    /\ ret = "none"
    /\ failedAt = "none"
    /\ idBefore = ""
    /\ assigned = FALSE
    /\ sent = 0
    /\ submitResp = "none"
    /\ polled = FALSE
    /\ outcome = "none"
    /\ fetched = 0
    /\ fetchResp = "none"
    /\ ncalls = 0
    /\ payload = NoObject
    /\ robj = NoObject
    /\ res = NoObject
    /\ deadline = 0
    /\ importId = <<>>
    /\ matched = 0
    /\ codec = NoObject

Init ==
    /\ kind \in Kinds
    /\ cfg \in [project : {"", "p1"}, region : {"", "r1"}]
    /\ d \in (IF kind = "address" THEN AddressFields ELSE RouteFields)
    /\ timeouts = DefaultTimeouts
    /\ InitCommon

\* ------------------------------------------------------------ call / return
Between == pc \in {"idle", "ret"}

Begin(c, first) ==
    /\ Between
    /\ ncalls < MaxCalls
    /\ ncalls' = ncalls + 1
    /\ call' = c
    /\ pc' = first
    /\ ret' = "none"
    /\ failedAt' = "none"
    /\ idBefore' = id
    /\ assigned' = FALSE
    /\ sent' = 0
    /\ submitResp' = "none"
    /\ polled' = FALSE
    /\ outcome' = "none"
    /\ fetched' = 0
    /\ fetchResp' = "none"
    /\ payload' = NoObject
    /\ res' = NoObject
    /\ deadline' = 0
    /\ UNCHANGED <<kind, cfg, d, id, remote, robj, timeouts, importId, matched,
                   codec>>

\* the handler returns r, having given up at step f ("none" on success)
Return(r, f) ==
    /\ pc' = "ret"
    /\ ret' = r
    /\ failedAt' = f

Goto(p) ==
    /\ pc' = p
    /\ UNCHANGED <<ret, failedAt>>

\* Create is called on a resource without identity, Read and Delete on a
\* resource with one
StartCreate ==
    /\ id = ""
    /\ Begin("create", IF kind = "address" THEN "a_c_expand" ELSE "r_c_network")

StartRead ==
    /\ id # ""
    /\ Begin("read", IF kind = "address" THEN "a_read" ELSE "r_read")

StartDelete ==
    /\ id # ""
    /\ Begin("delete", IF kind = "address" THEN "a_d_send" ELSE "r_d_send")

\* another actor removes the remote object
OtherActorDelete ==
    /\ remote
    /\ remote' = FALSE
    /\ robj' = NoObject
    /\ UNCHANGED <<kind, cfg, d, id, pc, call, ret, failedAt, idBefore,
                   assigned, sent, submitResp, polled, outcome, fetched,
                   fetchResp, ncalls, payload, res, timeouts, deadline,
                   importId, matched, codec>>

\* another actor changes a field of the remote object
OtherActorModify ==
    /\ remote
    /\ LET k == IF kind = "address" THEN "description" ELSE "destRange"
           v == IF kind = "address" THEN "edited" ELSE "10.9.0.0/16"
       IN  /\ Field(robj, k) # v
           /\ robj' = With(robj, k, v)
    /\ UNCHANGED <<kind, cfg, d, id, remote, pc, call, ret, failedAt, idBefore,
                   assigned, sent, submitResp, polled, outcome, fetched,
                   fetchResp, ncalls, payload, res, timeouts, deadline,
                   importId, matched, codec>>

\* ------------------------------------------------- resource_compute_route.go
\* state.Timeout = 2 * time.Minute of the route handlers, in minutes
RouteWaitMinutes == 2

\* resourceComputeRouteCreate: look up the network to attach the route to
resourceComputeRouteCreate_Network ==
    /\ pc = "r_c_network"
    /\ \E ok \in BOOLEAN :
          IF ok THEN Goto("r_c_instance") ELSE Return("err", "expand")
    /\ UNCHANGED <<static, payload, robj, res, deadline, id, remote, assigned, sent, submitResp, polled,
                   outcome, fetched, fetchResp>>

\* resourceComputeRouteCreate: look up next_hop_instance when it is set
resourceComputeRouteCreate_Instance ==
    /\ pc = "r_c_instance"
    /\ IF d.next_hop_instance # ""
       THEN \E ok \in BOOLEAN :
               IF ok THEN Goto("r_c_nextnet") ELSE Return("err", "expand")
       ELSE Goto("r_c_nextnet")
    /\ UNCHANGED <<static, payload, robj, res, deadline, id, remote, assigned, sent, submitResp, polled,
                   outcome, fetched, fetchResp>>

\* resourceComputeRouteCreate: look up next_hop_network when it is set
resourceComputeRouteCreate_NextNetwork ==
    /\ pc = "r_c_nextnet"
    /\ IF d.next_hop_network # ""
       THEN \E ok \in BOOLEAN :
               IF ok THEN Goto("r_c_insert") ELSE Return("err", "expand")
       ELSE Goto("r_c_insert")
    /\ UNCHANGED <<static, payload, robj, res, deadline, id, remote, assigned, sent, submitResp, polled,
                   outcome, fetched, fetchResp>>

\* the compute.Route built from the declared fields (of its fields, the ones
\* the model follows)
RoutePayload(dd) == [name |-> dd.name, destRange |-> dd.dest_range]

\* resourceComputeRouteCreate_Insert with d.SetId moved above the error check
Insert_SetIdBeforeCheck ==
    /\ pc = "r_c_insert"
    /\ sent' = sent + 1
    /\ payload' = RoutePayload(d)
    /\ \E resp \in {RespOK, RespTransport} :
          /\ submitResp' = resp
          /\ id' = d.name
          /\ assigned' = TRUE
          /\ IF resp # RespOK THEN Return("err", "submit")
                              ELSE Goto("r_c_wait")
    /\ UNCHANGED <<static, robj, res, deadline, remote, polled, outcome, fetched, fetchResp>>

\* resourceComputeRouteCreate: Routes.Insert, then d.SetId(route.Name)
resourceComputeRouteCreate_Insert ==
    /\ pc = "r_c_insert"
    /\ sent' = sent + 1
    /\ payload' = RoutePayload(d)
    /\ \E resp \in {RespOK, RespTransport} :
          /\ submitResp' = resp
          /\ IF resp # RespOK
             THEN /\ Return("err", "submit")
                  /\ UNCHANGED <<id, assigned>>
             ELSE /\ id' = d.name
                  /\ assigned' = TRUE
                  /\ Goto("r_c_wait")
    /\ UNCHANGED <<static, robj, res, deadline, remote, polled, outcome, fetched, fetchResp>>

\* resourceComputeRouteCreate_Wait without d.SetId("") on op.Error
CreateWait_NoRollback ==
    /\ pc = "r_c_wait"
    /\ polled' = TRUE
    /\ \E o \in Outcomes :
          /\ outcome' = o
          /\ remote' \in CreateEffect(o)
          /\ robj' = AfterCreate(o, remote', payload)
          /\ deadline' = RouteWaitMinutes
          /\ UNCHANGED id
          /\ IF o = "TimedOut" THEN Return("err", "wait")
             ELSE IF o = "Failed" THEN Return("err", "operation")
             ELSE Goto("r_read")
    /\ UNCHANGED <<static, payload, res, assigned, sent, submitResp, fetched, fetchResp>>

\* resourceComputeRouteCreate_Wait ignoring the error of WaitForState
CreateWait_IgnoreWaitErr ==
    /\ pc = "r_c_wait"
    /\ polled' = TRUE
    /\ \E o \in Outcomes :
          /\ outcome' = o
          /\ remote' \in CreateEffect(o)
          /\ robj' = AfterCreate(o, remote', payload)
          /\ deadline' = RouteWaitMinutes
          /\ IF o = "Failed"
             THEN /\ id' = ""
                  /\ Return("err", "operation")
             ELSE /\ Goto("r_read")
                  /\ UNCHANGED id
    /\ UNCHANGED <<static, payload, res, assigned, sent, submitResp, fetched, fetchResp>>

\* resourceComputeRouteCreate: state.WaitForState() and the check of op.Error
resourceComputeRouteCreate_Wait ==
    /\ pc = "r_c_wait"
    /\ polled' = TRUE
    /\ \E o \in Outcomes :
          /\ outcome' = o
          /\ remote' \in CreateEffect(o)
          /\ robj' = AfterCreate(o, remote', payload)
          /\ deadline' = RouteWaitMinutes
          /\ IF o = "TimedOut"
             THEN /\ Return("err", "wait")
                  /\ UNCHANGED id
             ELSE IF o = "Failed"
             THEN /\ id' = ""
                  /\ Return("err", "operation")
             ELSE /\ Goto("r_read")
                  /\ UNCHANGED id
    /\ UNCHANGED <<static, payload, res, assigned, sent, submitResp, fetched, fetchResp>>

\* resourceComputeRouteRead: Routes.Get by d.Id(); any error is returned
resourceComputeRouteRead ==
    /\ pc = "r_read"
    /\ fetched' = fetched + 1
    /\ \E resp \in AnswersByIdentity :
          /\ fetchResp' = resp
          /\ res' = IF resp = RespOK THEN robj ELSE NoObject
          /\ IF resp # RespOK THEN Return("err", "fetch")
                              ELSE Return("ok", "none")
    /\ UNCHANGED <<static, payload, robj, deadline, id, remote, assigned, sent, submitResp, polled,
                   outcome>>

\* resourceComputeRouteDelete: Routes.Delete by d.Id(); any error is returned
resourceComputeRouteDelete_Send ==
    /\ pc = "r_d_send"
    /\ sent' = sent + 1
    /\ \E resp \in AnswersByIdentity :
          /\ submitResp' = resp
          /\ IF resp # RespOK THEN Return("err", "submit")
                              ELSE Goto("r_d_wait")
    /\ UNCHANGED <<static, payload, robj, res, deadline, id, remote, assigned, polled, outcome, fetched,
                   fetchResp>>

\* resourceComputeRouteDelete_Wait sending the delete again after a timeout
DeleteWait_RetryOnTimeout ==
    /\ pc = "r_d_wait"
    /\ polled' = TRUE
    /\ \E o \in Outcomes :
          /\ outcome' = o
          /\ remote' \in DeleteEffect(o)
          /\ robj' = AfterDelete(remote')
          /\ deadline' = RouteWaitMinutes
          /\ IF o = "TimedOut"
             THEN /\ Goto("r_d_send")
                  /\ UNCHANGED id
             ELSE IF o = "Failed"
             THEN /\ Return("err", "operation")
                  /\ UNCHANGED id
             ELSE /\ id' = ""
                  /\ Return("ok", "none")
    /\ UNCHANGED <<static, payload, res, assigned, sent, submitResp, fetched, fetchResp>>

\* resourceComputeRouteDelete_Wait with d.SetId("") moved above the check of
\* op.Error
DeleteWait_ClearBeforeCheck ==
    /\ pc = "r_d_wait"
    /\ polled' = TRUE
    /\ \E o \in Outcomes :
          /\ outcome' = o
          /\ remote' \in DeleteEffect(o)
          /\ robj' = AfterDelete(remote')
          /\ deadline' = RouteWaitMinutes
          /\ IF o = "TimedOut"
             THEN /\ Return("err", "wait")
                  /\ UNCHANGED id
             ELSE IF o = "Failed"
             THEN /\ id' = ""
                  /\ Return("err", "operation")
             ELSE /\ id' = ""
                  /\ Return("ok", "none")
    /\ UNCHANGED <<static, payload, res, assigned, sent, submitResp, fetched, fetchResp>>

\* resourceComputeRouteDelete: state.WaitForState(), the check of op.Error,
\* and d.SetId("") on success
resourceComputeRouteDelete_Wait ==
    /\ pc = "r_d_wait"
    /\ polled' = TRUE
    /\ \E o \in Outcomes :
          /\ outcome' = o
          /\ remote' \in DeleteEffect(o)
          /\ robj' = AfterDelete(remote')
          /\ deadline' = RouteWaitMinutes
          /\ IF o = "TimedOut"
             THEN /\ Return("err", "wait")
                  /\ UNCHANGED id
             ELSE IF o = "Failed"
             THEN /\ Return("err", "operation")
                  /\ UNCHANGED id
             ELSE /\ id' = ""
                  /\ Return("ok", "none")
    /\ UNCHANGED <<static, payload, res, assigned, sent, submitResp, fetched, fetchResp>>

\* ----------------------------------------------- resource_compute_address.go
\* flattenComputeAddressAddress
flattenComputeAddressAddress(v) == v

\* flattenComputeAddressAddressType without the default for nil and ""
flattenAddressType_NoDefault(v) == v

\* flattenComputeAddressAddressType: nil and "" become "EXTERNAL"
flattenComputeAddressAddressType(v) ==
    IF v = Nil \/ v = "" THEN "EXTERNAL" ELSE v

\* flattenComputeAddressCreationTimestamp
flattenComputeAddressCreationTimestamp(v) == v

\* flattenComputeAddressDescription
flattenComputeAddressDescription(v) == v

\* flattenComputeAddressName
flattenComputeAddressName(v) == v

\* flattenComputeAddressNetworkTier
flattenComputeAddressNetworkTier(v) == v

\* flattenComputeAddressUsers
flattenComputeAddressUsers(v) == v

\* flattenComputeAddressSubnetwork: nil stays nil, a self-link becomes its v1
\* form
flattenComputeAddressSubnetwork(v) ==
    IF v = Nil THEN v ELSE ConvertSelfLinkToV1(v)

\* flattenComputeAddressRegion: nil stays nil, a self-link becomes the name
flattenComputeAddressRegion(v) ==
    IF v = Nil THEN v ELSE NameFromSelfLinkStateFunc(v)

\* d.Set(key, v): a nil value stores the zero value of the field
SetValue(v) == IF v = Nil THEN "" ELSE v

\* the conversion rounding up to the next whole minute
TimeoutMinutes_RoundUp(seconds) == (seconds + 59) \div 60

\* d.Timeout(key).Minutes() converted with int(): whole minutes, the
\* fraction dropped
TimeoutMinutes(seconds) == seconds \div 60

\* expandComputeAddressSubnetwork: a regional reference; a bare name needs
\* the project and the region of the context
expandComputeAddressSubnetwork(v, dd, c) ==
    IF parseFieldValueOK(v, dd, c) /\ (v = "" \/ getRegion(dd, c) # "")
    THEN [err |-> FALSE,
          val |-> IF v = "" THEN ""
                  ELSE IF LinksOf(v) # {}
                  THEN (CHOOSE e \in LinksOf(v) : TRUE).rel
                  ELSE "projects/" \o getProject(dd, c) \o "/regions/"
                       \o getRegion(dd, c) \o "/subnetworks/" \o v]
    ELSE [err |-> TRUE, val |-> ""]

\* expandComputeAddressRegion: a global reference; a bare name needs the
\* project of the context
expandComputeAddressRegion(v, dd, c) ==
    IF parseFieldValueOK(v, dd, c)
    THEN [err |-> FALSE,
          val |-> IF v = "" THEN ""
                  ELSE IF LinksOf(v) # {}
                  THEN (CHOOSE e \in LinksOf(v) : TRUE).rel
                  ELSE "projects/" \o getProject(dd, c) \o "/regions/" \o v]
    ELSE [err |-> TRUE, val |-> ""]

\* expandComputeAddressAddress and the other scalar expanders return the
\* declared value as it is
expandComputeAddressAddress(v, dd, c) == [err |-> FALSE, val |-> v]

expandComputeAddressAddressType(v, dd, c) == [err |-> FALSE, val |-> v]

expandComputeAddressDescription(v, dd, c) == [err |-> FALSE, val |-> v]

expandComputeAddressName(v, dd, c) == [err |-> FALSE, val |-> v]

expandComputeAddressNetworkTier(v, dd, c) == [err |-> FALSE, val |-> v]

\* the wire fields of the create request, in the order Create fills them
AddressWireFields ==
    <<"address", "addressType", "description", "name", "networkTier",
      "subnetwork", "region">>

\* the declared field a wire field is expanded from
SchemaName(w) ==
    CASE w = "address"     -> "address"
      [] w = "addressType" -> "address_type"
      [] w = "description" -> "description"
      [] w = "name"        -> "name"
      [] w = "networkTier" -> "network_tier"
      [] w = "subnetwork"  -> "subnetwork"
      [] w = "region"      -> "region"

\* xProp, err := expandComputeAddressX(d.Get("x"), d, config)
ExpandField(w, dd, c) ==
    CASE w = "address"     -> expandComputeAddressAddress(dd.address, dd, c)
      [] w = "addressType" -> expandComputeAddressAddressType(dd.address_type, dd, c)
      [] w = "description" -> expandComputeAddressDescription(dd.description, dd, c)
      [] w = "name"        -> expandComputeAddressName(dd.name, dd, c)
      [] w = "networkTier" -> expandComputeAddressNetworkTier(dd.network_tier, dd, c)
      [] w = "subnetwork"  -> expandComputeAddressSubnetwork(dd.subnetwork, dd, c)
      [] w = "region"      -> expandComputeAddressRegion(dd.region, dd, c)

\* isEmptyValue of a string: its length is 0
isEmptyValue(v) == v = ""

\* d.GetOkExists: the value, and whether the field is set at all (a set field
\* may hold the empty value)
GetOkExists(dd, f) == [v |-> dd[f], ok |-> dd[f] # "" \/ f \in dd.zeroed]

\* the obj of Create built without the isEmptyValue test
AddressCreateObj_NoEmptyTest(dd, c) ==
    LET keep(w) == LET prop == ExpandField(w, dd, c).val
                       g    == GetOkExists(dd, SchemaName(w))
                   IN  g.ok \/ g.v # prop
    IN  [w \in {AddressWireFields[i] : i \in {j \in 1..Len(AddressWireFields) :
                                                keep(AddressWireFields[j])}}
            |-> ExpandField(w, dd, c).val]

\* the obj of Create: a field is put in when its expanded value is not empty
\* and the field is set or differs from the declared value
AddressCreateObj(dd, c) ==
    LET keep(w) == LET prop == ExpandField(w, dd, c).val
                       g    == GetOkExists(dd, SchemaName(w))
                   IN  ~isEmptyValue(prop) /\ (g.ok \/ g.v # prop)
    IN  [w \in {AddressWireFields[i] : i \in {j \in 1..Len(AddressWireFields) :
                                                keep(AddressWireFields[j])}}
            |-> ExpandField(w, dd, c).val]

\* resourceComputeAddressCreate_Expand dropping the error of
\* expandComputeAddressRegion
Expand_DropRegionErr ==
    /\ pc = "a_c_expand"
    /\ IF expandComputeAddressSubnetwork(d.subnetwork, d, cfg).err
       THEN Return("err", "expand")
       ELSE IF expandComputeAddressRegion(d.region, d, cfg).err
       THEN /\ pc' = "a_c_post"
            /\ failedAt' = "expand"
            /\ UNCHANGED ret
       ELSE IF ~replaceVarsOK(d, cfg)
       THEN Return("err", "url")
       ELSE Goto("a_c_post")
    /\ UNCHANGED <<static, payload, robj, res, deadline, id, remote, assigned, sent, submitResp, polled,
                   outcome, fetched, fetchResp>>

\* resourceComputeAddressCreate: expand every declared field, then build the
\* collection URL; the first error is returned
resourceComputeAddressCreate_Expand ==
    /\ pc = "a_c_expand"
    /\ IF expandComputeAddressSubnetwork(d.subnetwork, d, cfg).err
       THEN Return("err", "expand")
       ELSE IF expandComputeAddressRegion(d.region, d, cfg).err
       THEN Return("err", "expand")
       ELSE IF ~replaceVarsOK(d, cfg)
       THEN Return("err", "url")
       ELSE Goto("a_c_post")
    /\ UNCHANGED <<static, payload, robj, res, deadline, id, remote, assigned, sent, submitResp, polled,
                   outcome, fetched, fetchResp>>

\* resourceComputeAddressCreate_Post going on to Read without the wait
Post_ReadBeforeWait ==
    /\ pc = "a_c_post"
    /\ sent' = sent + 1
    /\ payload' = AddressCreateObj(d, cfg)
    /\ \E resp \in {RespOK, RespTransport}, convertOK \in BOOLEAN :
          /\ submitResp' = resp
          /\ IF resp # RespOK
             THEN /\ Return("err", "submit")
                  /\ UNCHANGED <<id, assigned>>
             ELSE IF ~replaceVarsOK(d, cfg)
             THEN /\ Return("err", "id")
                  /\ UNCHANGED <<id, assigned>>
             ELSE /\ id' = AddressId(d, cfg)
                  /\ assigned' = TRUE
                  /\ IF getProject(d, cfg) = ""
                     THEN Return("err", "project")
                     ELSE IF ~convertOK
                     THEN Return("err", "decode")
                     ELSE Goto("a_read")
    /\ UNCHANGED <<static, robj, res, deadline, remote, polled, outcome, fetched, fetchResp>>

\* resourceComputeAddressCreate: POST, then construct and store the id, look
\* up the project and decode the response into the operation
resourceComputeAddressCreate_Post ==
    /\ pc = "a_c_post"
    /\ sent' = sent + 1
    /\ payload' = AddressCreateObj(d, cfg)
    /\ \E resp \in {RespOK, RespTransport}, convertOK \in BOOLEAN :
          /\ submitResp' = resp
          /\ IF resp # RespOK
             THEN /\ Return("err", "submit")
                  /\ UNCHANGED <<id, assigned>>
             ELSE IF ~replaceVarsOK(d, cfg)
             THEN /\ Return("err", "id")
                  /\ UNCHANGED <<id, assigned>>
             ELSE /\ id' = AddressId(d, cfg)
                  /\ assigned' = TRUE
                  /\ IF getProject(d, cfg) = ""
                     THEN Return("err", "project")
                     ELSE IF ~convertOK
                     THEN Return("err", "decode")
                     ELSE Goto("a_c_wait")
    /\ UNCHANGED <<static, robj, res, deadline, remote, polled, outcome, fetched, fetchResp>>

\* resourceComputeAddressCreate: computeOperationWaitTime; a wait error
\* clears the id
resourceComputeAddressCreate_Wait ==
    /\ pc = "a_c_wait"
    /\ polled' = TRUE
    /\ deadline' = TimeoutMinutes(timeouts.create)
    /\ \E o \in Outcomes, base \in {V1Base, BetaBase} :
          /\ outcome' = o
          /\ remote' \in CreateEffect(o)
          /\ robj' = AfterCreate(o, remote',
                                 ServerAddress(payload, getProject(d, cfg),
                                               getRegion(d, cfg), base))
          /\ IF computeOperationWaitTime(o) # "nil"
             THEN /\ id' = ""
                  /\ Return("err", IF o = "Failed" THEN "operation" ELSE "wait")
             ELSE /\ Goto("a_read")
                  /\ UNCHANGED id
    /\ UNCHANGED <<static, payload, res, assigned, sent, submitResp, fetched, fetchResp>>

\* the declared fields after the d.Set calls of Read on the fetched object r
ReadFields(dd, c, r) ==
    [dd EXCEPT
       !.address = SetValue(flattenComputeAddressAddress(Field(r, "address"))),
       !.address_type =
           SetValue(flattenComputeAddressAddressType(Field(r, "addressType"))),
       !.creation_timestamp =
           SetValue(flattenComputeAddressCreationTimestamp(Field(r, "creationTimestamp"))),
       !.description =
           SetValue(flattenComputeAddressDescription(Field(r, "description"))),
       !.name = SetValue(flattenComputeAddressName(Field(r, "name"))),
       !.network_tier =
           SetValue(flattenComputeAddressNetworkTier(Field(r, "networkTier"))),
       !.subnetwork =
           SetValue(flattenComputeAddressSubnetwork(Field(r, "subnetwork"))),
       !.users = SetValue(flattenComputeAddressUsers(Field(r, "users"))),
       !.region = SetValue(flattenComputeAddressRegion(Field(r, "region"))),
       !.self_link = ConvertSelfLinkToV1(Field(r, "selfLink")),
       !.project = getProject(dd, c)]

\* resourceComputeAddressRead: GET by identity; an error goes through
\* handleNotFoundError; otherwise every field is set from the fetched object
resourceComputeAddressRead ==
    /\ pc = "a_read"
    /\ IF ~replaceVarsOK(d, cfg)
       THEN /\ Return("err", "url")
            /\ UNCHANGED <<id, fetched, fetchResp, res, d>>
       ELSE /\ fetched' = fetched + 1
            /\ \E resp \in AnswersByIdentity :
                  /\ fetchResp' = resp
                  /\ IF resp # RespOK
                     THEN /\ Return(handleNotFoundError(resp).ret,
                                    IF handleNotFoundError(resp).ret = "err"
                                    THEN "fetch" ELSE "none")
                          /\ id' = IF handleNotFoundError(resp).clear
                                   THEN "" ELSE id
                          /\ res' = NoObject
                          /\ UNCHANGED d
                     ELSE /\ res' = robj
                          /\ d' = ReadFields(d, cfg, robj)
                          /\ IF getProject(d, cfg) = ""
                             THEN Return("err", "project")
                             ELSE Return("ok", "none")
                          /\ UNCHANGED id
    /\ UNCHANGED <<kind, cfg, call, idBefore, ncalls, timeouts, importId,
                   matched, codec, payload, robj, deadline, remote, assigned,
                   sent, submitResp, polled, outcome>>

\* resourceComputeAddressDelete: DELETE by identity; an error goes through
\* handleNotFoundError; then look up the project and decode the operation
resourceComputeAddressDelete_Send ==
    /\ pc = "a_d_send"
    /\ IF ~replaceVarsOK(d, cfg)
       THEN /\ Return("err", "url")
            /\ UNCHANGED <<id, sent, submitResp>>
       ELSE /\ sent' = sent + 1
            /\ \E resp \in AnswersByIdentity, convertOK \in BOOLEAN :
                  /\ submitResp' = resp
                  /\ IF resp # RespOK
                     THEN /\ Return(handleNotFoundError(resp).ret,
                                    IF handleNotFoundError(resp).ret = "err"
                                    THEN "submit" ELSE "none")
                          /\ id' = IF handleNotFoundError(resp).clear
                                   THEN "" ELSE id
                     ELSE /\ UNCHANGED id
                          /\ IF getProject(d, cfg) = ""
                             THEN Return("err", "project")
                             ELSE IF ~convertOK
                             THEN Return("err", "decode")
                             ELSE Goto("a_d_wait")
    /\ UNCHANGED <<static, payload, robj, res, deadline, remote, assigned, polled, outcome, fetched,
                   fetchResp>>

\* resourceComputeAddressDelete: computeOperationWaitTime; its error is
\* returned, and on success the handler returns nil
resourceComputeAddressDelete_Wait ==
    /\ pc = "a_d_wait"
    /\ polled' = TRUE
    /\ deadline' = TimeoutMinutes(timeouts.delete)
    /\ \E o \in Outcomes :
          /\ outcome' = o
          /\ remote' \in DeleteEffect(o)
          /\ robj' = AfterDelete(remote')
          /\ IF computeOperationWaitTime(o) # "nil"
             THEN Return("err", IF o = "Failed" THEN "operation" ELSE "wait")
             ELSE Return("ok", "none")
    /\ UNCHANGED <<static, payload, res, id, assigned, sent, submitResp, fetched, fetchResp>>

\* ------------------------------------------------------------ specification
Next ==
    \/ StartCreate
    \/ StartRead
    \/ StartDelete
    \/ OtherActorDelete
    \/ OtherActorModify
    \/ resourceComputeRouteCreate_Network
    \/ resourceComputeRouteCreate_Instance
    \/ resourceComputeRouteCreate_NextNetwork
    \/ resourceComputeRouteCreate_Insert
    \/ resourceComputeRouteCreate_Wait
    \/ resourceComputeRouteRead
    \/ resourceComputeRouteDelete_Send
    \/ resourceComputeRouteDelete_Wait
    \/ resourceComputeAddressCreate_Expand
    \/ resourceComputeAddressCreate_Post
    \/ resourceComputeAddressCreate_Wait
    \/ resourceComputeAddressRead
    \/ resourceComputeAddressDelete_Send
    \/ resourceComputeAddressDelete_Wait

Spec == Init /\ [][Next]_vars

\* every combination of set and unset declared fields of an address (name is
\* required), with the provider defaults in place
AddressFieldCases ==
    {dd \in [name : {"a1"}, project : {""}, region : {"", "r2"},
             subnetwork : {"", "sub1"},
             next_hop_instance : {""}, next_hop_network : {""},
             address : {"", "10.0.0.1"},
             address_type : {"", "INTERNAL", "EXTERNAL"},
             description : {"", "web"}, network_tier : {"", "PREMIUM"},
             creation_timestamp : {""}, users : {""}, self_link : {""},
             dest_range : {""},
             zeroed : SUBSET {"address_type", "description"}] :
        \A f \in dd.zeroed : dd[f] = ""}

InitFields ==
    /\ kind \in Kinds
    /\ cfg = [project |-> "p1", region |-> "r1"]
    /\ d \in (IF kind = "address" THEN AddressFieldCases ELSE RouteFields)
    /\ timeouts = DefaultTimeouts
    /\ InitCommon

SpecFields == InitFields /\ [][Next]_vars

\* timeouts a configuration can set for create and delete, in seconds
ConfiguredTimeouts == {1, 30, 59, 60, 61, 119, 120, 240}

\* one address and one route, under every pair of configured timeouts
InitTimeouts ==
    /\ kind \in Kinds
    /\ cfg = [project |-> "p1", region |-> "r1"]
    /\ d \in (IF kind = "address"
              THEN {dd \in AddressFields : dd.project = "" /\ dd.region = ""
                                             /\ dd.subnetwork = ""}
              ELSE {dd \in RouteFields : dd.next_hop_instance = "i1"
                                           /\ dd.next_hop_network = ""})
    /\ timeouts \in (IF kind = "address"
                     THEN [create : ConfiguredTimeouts, delete : ConfiguredTimeouts]
                     ELSE {DefaultTimeouts})
    /\ InitCommon

SpecTimeouts == InitTimeouts /\ [][Next]_vars

TypeOK ==
    /\ kind \in Kinds
    /\ id \in {"", "rt1"} \cup {AddressId(d, cfg)}
    /\ remote \in BOOLEAN
    /\ ret \in {"none", "ok", "err"}
    /\ sent \in 0..1
    /\ fetched \in 0..1
    /\ outcome \in Outcomes \cup {"none"}
    /\ ncalls \in 0..MaxCalls

Returned == pc = "ret"

\* ------------------------------------------------------------------ claims
\* C1: when Create has submitted, assigned the identity and the operation
\* completed with a server-reported error, Create returns an error and the
\* identity is empty at return.
C1_CreateOperationErrorRollsBack ==
    (Returned /\ call = "create" /\ assigned /\ outcome = "Failed")
        => (ret = "err" /\ id = "")

C1_Witness ==
    /\ Returned /\ call = "create" /\ kind = "route"
    /\ sent = 1 /\ assigned /\ polled /\ outcome = "Failed" /\ failedAt = "operation"

\* C2: when the wait of Create ends in a timeout or a wait error, the
\* identity is empty when Create returns.
C2_CreateTimeoutClearsId ==
    (Returned /\ call = "create" /\ outcome = "TimedOut") => id = ""

\* C3: a Delete whose delete request is answered with NotFound returns
\* success, raises no operation error and starts no polling.
C3_DeleteNotFoundIsSuccess ==
    (Returned /\ call = "delete" /\ submitResp = RespNotFound)
        => (ret = "ok" /\ failedAt # "operation" /\ ~polled)

\* C4: a Read that finds the remote object missing does not fail: it returns
\* success with the identity dropped, while any other fetch error is returned
\* as an error.
C4_ReadNotFoundIsAbsent ==
    /\ (Returned /\ call = "read" /\ fetchResp = RespNotFound)
          => (ret = "ok" /\ id = "")
    /\ (Returned /\ call = "read" /\ fetchResp = RespTransport)
          => ret = "err"

\* C5: whenever address Create returns an error, at whatever step, the
\* identity is empty at return.
C5_AddressCreateErrorLeavesNoId ==
    (Returned /\ kind = "address" /\ call = "create" /\ ret = "err") => id = ""

\* C6: whenever Delete returns an error, the identity is the same non-empty
\* value it had before the call.
C6_DeleteErrorKeepsId ==
    (Returned /\ call = "delete" /\ ret = "err")
        => (id = idBefore /\ id # "")

C6_Witness ==
    /\ Returned /\ call = "delete" /\ ret = "err"
    /\ polled /\ outcome = "Failed" /\ idBefore # ""

\* C7: when the create request fails at submission, Create returns an error
\* at once, the identity is never assigned in that call, and neither the wait
\* nor the Read is performed.
C7_SubmitErrorAssignsNothing ==
    (call = "create" /\ submitResp = RespTransport)
        => /\ Returned /\ ret = "err"
           /\ ~assigned /\ id = ""
           /\ ~polled /\ fetched = 0

C7_Witness ==
    /\ Returned /\ call = "create" /\ sent = 1
    /\ submitResp = RespTransport /\ failedAt = "submit"

\* C8: when expanding or resolving a declared field (or building the URL)
\* fails during Create, Create returns the error, the create request is never
\* sent and the identity stays unassigned.
C8_ExpandErrorSendsNothing ==
    (call = "create" /\ failedAt \in {"expand", "url"})
        => /\ Returned /\ ret = "err"
           /\ sent = 0 /\ submitResp = "none"
           /\ ~assigned /\ id = ""

C8_Witness ==
    /\ Returned /\ call = "create" /\ kind = "address"
    /\ failedAt = "expand" /\ d.region = Malformed /\ d.subnetwork # Malformed

\* C9: Create and Delete never return success when the wait timed out or the
\* operation completed with an error.
C9_NoSuccessAfterFailedWait ==
    (Returned /\ call \in {"create", "delete"}
              /\ outcome \in {"Failed", "TimedOut"})
        => ret = "err"

C9_Witness ==
    /\ Returned /\ call = "create" /\ kind = "route"
    /\ outcome = "TimedOut" /\ ret = "err" /\ fetched = 0

\* C10: when Delete submitted the deletion and the wait succeeded without an
\* operation error, the identity is empty when Delete returns success.
C10_DeleteSuccessClearsId ==
    (Returned /\ call = "delete" /\ outcome = "Succeeded" /\ ret = "ok")
        => id = ""

\* ------------------------------------------------------------------ import
\* a pattern is a sequence of "/"-separated parts: a literal word or a named
\* capture group (?P<name>[^/]+)
Lit(w) == [lit |-> TRUE,  s |-> w]
Cap(n) == [lit |-> FALSE, s |-> n]

\* the id patterns of resourceComputeAddressImport, in declaration order
ImportPatterns_NoQualified ==
    << <<Cap("project"), Cap("region"), Cap("name")>>,
       <<Cap("name")>> >>

ImportPatterns ==
    << <<Lit("projects"), Cap("project"), Lit("regions"), Cap("region"),
         Lit("addresses"), Cap("name")>>,
       <<Cap("project"), Cap("region"), Cap("name")>>,
       <<Cap("name")>> >>

\* the whole id matches the pattern: part by part, a literal matches itself
\* and a capture group matches any segment
Matches(pat, segs) ==
    /\ Len(pat) = Len(segs)
    /\ \A i \in 1..Len(pat) : pat[i].lit => segs[i] = pat[i].s

\* index of the first pattern, in order, that matches; 0 when none does
FirstMatch(pats, segs) ==
    IF \E i \in 1..Len(pats) : Matches(pats[i], segs)
    THEN CHOOSE i \in 1..Len(pats) :
            /\ Matches(pats[i], segs)
            /\ \A j \in 1..(i - 1) : ~Matches(pats[j], segs)
    ELSE 0

\* the segment a pattern captured under a group name, "" when it has no such
\* group
Captured(pat, segs, n) ==
    IF \E i \in 1..Len(pat) : ~pat[i].lit /\ pat[i].s = n
    THEN segs[CHOOSE i \in 1..Len(pat) : ~pat[i].lit /\ pat[i].s = n]
    ELSE ""

\* parseImportId: the first matching pattern seeds the identity fields; a
\* field it does not capture falls back to the ambient default; no match is
\* the error NoPatternMatched
parseImportId(pats, segs, dd, c) ==
    LET i == FirstMatch(pats, segs) IN
    IF i = 0
    THEN [err |-> TRUE, matched |-> 0, d |-> dd]
    ELSE LET got(n) == Captured(pats[i], segs, n) IN
         [err |-> FALSE, matched |-> i,
          d |-> [dd EXCEPT !.name = got("name"),
                           !.project = IF got("project") # "" THEN got("project")
                                       ELSE c.project,
                           !.region = IF got("region") # "" THEN got("region")
                                      ELSE c.region]]

\* the id string Import receives: its segments joined by "/"
RECURSIVE Join(_)
Join(segs) ==
    IF Len(segs) = 0 THEN ""
    ELSE IF Len(segs) = 1 THEN segs[1]
    ELSE segs[1] \o "/" \o Join(Tail(segs))

\* resourceComputeAddressImport with a trailing Read of the remote object
Import_WithRead ==
    /\ pc = "import"
    /\ call' = "import"
    /\ LET p == parseImportId(ImportPatterns, importId, d, cfg) IN
          /\ d' = p.d
          /\ matched' = p.matched
          /\ IF ~replaceVarsOK(p.d, cfg)
             THEN /\ Return("err", "id")
                  /\ UNCHANGED <<id, fetched>>
             ELSE /\ id' = AddressId(p.d, cfg)
                  /\ fetched' = fetched + 1
                  /\ Return("ok", "none")
    /\ UNCHANGED <<kind, cfg, remote, idBefore, assigned, sent, submitResp,
                   polled, outcome, fetchResp, ncalls, payload, robj,
                   res, timeouts, deadline, importId, codec>>

\* resourceComputeAddressImport: parseImportId with its result dropped, then
\* the id is rebuilt from the seeded fields and stored
resourceComputeAddressImport ==
    /\ pc = "import"
    /\ call' = "import"
    /\ LET p == parseImportId(ImportPatterns, importId, d, cfg) IN
          /\ d' = p.d
          /\ matched' = p.matched
          /\ IF ~replaceVarsOK(p.d, cfg)
             THEN /\ Return("err", "id")
                  /\ UNCHANGED id
             ELSE /\ id' = AddressId(p.d, cfg)
                  /\ Return("ok", "none")
    /\ UNCHANGED <<kind, cfg, remote, idBefore, assigned, sent, submitResp,
                   polled, outcome, fetched, fetchResp, ncalls, payload, robj,
                   res, timeouts, deadline, importId, codec>>

\* the words an import id is made of
ImportSegments == {"projects", "regions", "addresses", "p1", "r1", "a1"}

ImportIds == UNION {[1..n -> ImportSegments] : n \in 1..MaxSegments}

\* an address resource without any state, about to be imported
BlankAddress ==
    [name |-> "", project |-> "", region |-> "", subnetwork |-> "",
     next_hop_instance |-> "", next_hop_network |-> "",
     address |-> "", address_type |-> "", description |-> "",
     network_tier |-> "", creation_timestamp |-> "", users |-> "",
     self_link |-> "", dest_range |-> "", zeroed |-> {}]

InitImport ==
    /\ kind = "address"
    /\ cfg \in {[project |-> "", region |-> ""], [project |-> "p0", region |-> "r0"]}
    /\ d = BlankAddress
    /\ timeouts = DefaultTimeouts
    /\ importId \in ImportIds
    /\ id = Join(importId)
    /\ remote = FALSE
    /\ pc = "import"
    /\ call = "none"
    /\ ret = "none"
    /\ failedAt = "none"
    /\ idBefore = ""
    /\ assigned = FALSE
    /\ sent = 0
    /\ submitResp = "none"
    /\ polled = FALSE
    /\ outcome = "none"
    /\ fetched = 0
    /\ fetchResp = "none"
    /\ ncalls = 0
    /\ payload = NoObject
    /\ robj = NoObject
    /\ res = NoObject
    /\ deadline = 0
    /\ matched = 0
    /\ codec = NoObject

NextImport == resourceComputeAddressImport

SpecImport == InitImport /\ [][NextImport]_vars

\* C11: the import patterns are tried in declaration order and the first
\* whole-string match wins: a fully-qualified id
\* projects/P/regions/R/addresses/N is parsed by the first pattern into
\* project P, region R, name N, never by a shorter pattern into a name that
\* is the whole id.
C11_ImportPatternPrecedence ==
    (Returned /\ call = "import")
        => /\ matched = FirstMatch(ImportPatterns, importId)
           /\ matched # 0 =>
                 \A j \in 1..(matched - 1) : ~Matches(ImportPatterns[j], importId)
           /\ (/\ Len(importId) = 6
               /\ importId[1] = "projects"
               /\ importId[3] = "regions"
               /\ importId[5] = "addresses")
                 => /\ matched = 1
                    /\ d.project = importId[2]
                    /\ d.region = importId[4]
                    /\ d.name = importId[6]
                    /\ d.name # Join(importId)
                    /\ id = importId[2] \o "/" \o importId[4] \o "/" \o importId[6]

C11_Witness ==
    /\ Returned /\ call = "import"
    /\ importId = <<"projects", "p1", "regions", "r1", "addresses", "a1">>
    /\ d.project = "p1" /\ d.region = "r1" /\ d.name = "a1"
    /\ id = "p1/r1/a1"

\* C12: when the import id matches none of the patterns, Import returns the
\* error NoPatternMatched instead of a seeded state with an assigned identity.
C12_ImportNoMatchIsError ==
    (Returned /\ call = "import" /\ matched = 0)
        => (ret = "err" /\ id = Join(importId))

\* C13: Import changes only the identity fields project, region, name and
\* the resource id: no non-identity field is set and no request is sent.
NonIdentityFields ==
    {"address", "address_type", "description", "network_tier", "subnetwork",
     "users", "self_link", "creation_timestamp"}

C13_ImportTouchesIdentityOnly ==
    [][(pc = "import" /\ pc' = "ret")
          => /\ \A f \in NonIdentityFields : d'[f] = d[f]
             /\ sent' = sent /\ fetched' = fetched
             /\ remote' = remote /\ robj' = robj]_vars

C13_Witness ==
    /\ Returned /\ call = "import" /\ ret = "ok" /\ matched = 2
    /\ d.name = "a1" /\ id = "p1/r1/a1" /\ sent = 0 /\ fetched = 0

\* C14: within one Create call the steps occur in the order submit, assign
\* identity, wait, Read: the identity is assigned only after a successful
\* submit, the wait starts only after both, and the trailing Read is performed
\* only after the wait ended in success.
C14_CreateStepOrder ==
    call = "create" =>
        /\ assigned => (sent = 1 /\ submitResp = RespOK)
        /\ (polled \/ pc \in {"a_c_wait", "r_c_wait"})
              => (sent = 1 /\ submitResp = RespOK /\ assigned)
        /\ pc \in {"a_c_wait", "r_c_wait"} => (id # "" /\ ~polled /\ fetched = 0)
        /\ (fetched > 0 \/ pc \in {"a_read", "r_read"})
              => (polled /\ outcome = "Succeeded" /\ assigned)

C14_Witness ==
    /\ Returned /\ call = "create" /\ kind = "address" /\ ret = "ok"
    /\ sent = 1 /\ assigned /\ polled /\ outcome = "Succeeded"
    /\ fetched = 1 /\ fetchResp = RespOK

\* C15: the payload address Create submits never carries a field whose
\* expanded value is empty, whatever combination of declared fields is set;
\* with only name and address_type = "INTERNAL" set the payload is exactly
\* {name, addressType}.
C15_PayloadHasNoEmptyField ==
    (kind = "address" /\ call = "create" /\ sent = 1)
        => /\ \A w \in DOMAIN payload :
                 /\ payload[w] # ""
                 /\ \E i \in 1..Len(AddressWireFields) : AddressWireFields[i] = w
           /\ pc = "a_c_wait"
                 => /\ \A w \in DOMAIN payload : payload[w] = ExpandField(w, d, cfg).val
                    /\ (/\ d.address_type = "INTERNAL"
                        /\ d.address = "" /\ d.description = ""
                        /\ d.network_tier = "" /\ d.subnetwork = ""
                        /\ d.region = "")
                          => payload = [name |-> d.name, addressType |-> "INTERNAL"]

C15_Witness ==
    /\ kind = "address" /\ call = "create" /\ pc = "a_c_wait" /\ sent = 1
    /\ d.address_type = "" /\ "address_type" \in d.zeroed
    /\ d.description = "web" /\ d.subnetwork = "" /\ d.address = ""
    /\ DOMAIN payload = {"name", "description", "region"}

\* ------------------------------------------------------------- field codec
\* the scalar fields of an address, by declared name
ScalarFields == {"address", "address_type", "description", "name", "network_tier"}

\* the wire field a declared scalar field is sent as
WireName(f) ==
    CASE f = "address"      -> "address"
      [] f = "address_type" -> "addressType"
      [] f = "description"  -> "description"
      [] f = "name"         -> "name"
      [] f = "network_tier" -> "networkTier"

\* the flattener Read applies to a scalar field
FlattenScalar(f, v) ==
    CASE f = "address"      -> flattenComputeAddressAddress(v)
      [] f = "address_type" -> flattenComputeAddressAddressType(v)
      [] f = "description"  -> flattenComputeAddressDescription(v)
      [] f = "name"         -> flattenComputeAddressName(v)
      [] f = "network_tier" -> flattenComputeAddressNetworkTier(v)

\* the values a scalar field is tried with
CodecValues ==
    {"", "EXTERNAL", "INTERNAL", "PREMIUM", "STANDARD", "10.0.0.1", "a1", "web"}

\* a declared value about to be expanded, or a wire value (nil when the
\* response does not carry the field) about to be flattened
InitCodec ==
    /\ kind = "address"
    /\ cfg = [project |-> "p1", region |-> "r1"]
    /\ d = BlankAddress
    /\ timeouts = DefaultTimeouts
    /\ id = ""
    /\ remote = FALSE
    /\ pc = "idle"
    /\ call = "none"
    /\ ret = "none"
    /\ failedAt = "none"
    /\ idBefore = ""
    /\ assigned = FALSE
    /\ sent = 0
    /\ submitResp = "none"
    /\ polled = FALSE
    /\ outcome = "none"
    /\ fetched = 0
    /\ fetchResp = "none"
    /\ ncalls = 0
    /\ payload = NoObject
    /\ robj = NoObject
    /\ res = NoObject
    /\ deadline = 0
    /\ importId = <<>>
    /\ matched = 0
    /\ codec \in
          [stage : {"declared"}, field : ScalarFields, declared : CodecValues,
           wire : {Nil}, flat : {Nil}]
          \cup
          [stage : {"wire"}, field : ScalarFields, declared : {Nil},
           wire : CodecValues \cup {Nil}, flat : {Nil}]

codecFrame ==
    UNCHANGED <<kind, cfg, d, id, remote, pc, call, ret, failedAt, idBefore,
                assigned, sent, submitResp, polled, outcome, fetched,
                fetchResp, ncalls, payload, robj, res, timeouts, deadline,
                importId, matched>>

\* expand the declared value of the field into its wire value
CodecExpand ==
    /\ codec.stage = "declared"
    /\ codec' = [codec EXCEPT
                   !.stage = "wire",
                   !.wire = ExpandField(WireName(codec.field),
                                        [d EXCEPT ![codec.field] = codec.declared],
                                        cfg).val]
    /\ codecFrame

\* flatten the wire value of the field into its declared form
CodecFlatten ==
    /\ codec.stage = "wire"
    /\ codec' = [codec EXCEPT !.stage = "flat",
                              !.flat = FlattenScalar(codec.field, codec.wire)]
    /\ codecFrame

NextCodec == CodecExpand \/ CodecFlatten

SpecCodec == InitCodec /\ [][NextCodec]_vars

\* C16: for the scalar fields address, address_type, description, name and
\* network_tier, flatten(expand(v)) = v for every declared value v, except
\* that an absent or empty address_type flattens to "EXTERNAL"; flattening
\* address_type never yields an empty value, and an absent network_tier
\* flattens to absent.
C16_FlattenExpandRoundTrip ==
    codec.stage = "flat" =>
        /\ codec.declared # Nil =>
              codec.flat = IF codec.field = "address_type" /\ codec.declared = ""
                           THEN "EXTERNAL" ELSE codec.declared
        /\ codec.field = "address_type" =>
              /\ codec.flat \notin {"", Nil}
              /\ codec.wire \in {"", Nil} => codec.flat = "EXTERNAL"
        /\ (codec.field = "network_tier" /\ codec.wire = Nil) => codec.flat = Nil

C16_Witness ==
    /\ codec.stage = "flat" /\ codec.field = "address_type"
    /\ codec.declared = "" /\ codec.wire = "" /\ codec.flat = "EXTERNAL"

\* C17: when Read finds the remote object, it writes every declared field of
\* the kind from the remote object's values, so that after a successful Read
\* the declared state equals the flattened remote representation.
C17_ReadReflectsRemote ==
    (Returned /\ call \in {"read", "create"} /\ fetchResp = RespOK /\ ret = "ok")
        => IF kind = "route"
           THEN /\ d.name = Field(res, "name")
                /\ d.dest_range = Field(res, "destRange")
           ELSE /\ \A f \in ScalarFields :
                      d[f] = SetValue(FlattenScalar(f, Field(res, WireName(f))))
                /\ d.creation_timestamp = Field(res, "creationTimestamp")
                /\ d.subnetwork =
                      SetValue(flattenComputeAddressSubnetwork(Field(res, "subnetwork")))
                /\ d.region =
                      SetValue(flattenComputeAddressRegion(Field(res, "region")))
                /\ d.self_link = ConvertSelfLinkToV1(Field(res, "selfLink"))

\* C18: no lifecycle call retries a request internally: one call sends at
\* most one mutating request, whatever errors or timeouts occur, and after a
\* failed submit or a timeout the call has returned without resubmitting.
C18_NoInternalRetry ==
    /\ sent <= 1
    /\ call \in {"create", "delete"} =>
          /\ outcome = "TimedOut" => (Returned /\ ret = "err" /\ sent = 1)
          /\ submitResp = RespTransport => (Returned /\ ret = "err" /\ sent = 1)
          /\ polled => sent = 1

C18_Witness ==
    /\ Returned /\ call = "delete" /\ kind = "address"
    /\ sent = 1 /\ polled /\ outcome = "TimedOut" /\ ret = "err"

\* C19: whenever Create returns success the identity is non-empty, also when
\* another actor deletes the remote object after the create operation
\* succeeded and before the trailing Read fetches it.
C19_CreateSuccessHasId ==
    (Returned /\ call = "create" /\ ret = "ok") => id # ""

\* C20: the deadline address Create and Delete hand to the operation wait is
\* the configured timeout in whole minutes, truncated: it never exceeds the
\* configured timeout, equals it only for a whole number of minutes (240 s
\* gives 4), and is 0 for a timeout under one minute.
C20_DeadlineIsTruncatedMinutes ==
    (kind = "address" /\ call \in {"create", "delete"} /\ polled)
        => LET t == timeouts[call] IN
           /\ deadline * 60 <= t
           /\ t - deadline * 60 < 60
           /\ (deadline * 60 = t) <=> (t % 60 = 0)
           /\ t < 60 => deadline = 0
           /\ t = 240 => deadline = 4

C20_Witness ==
    /\ kind = "address" /\ call = "create" /\ polled
    /\ timeouts.create = 119 /\ timeouts.delete = 59 /\ deadline = 1

====
